---------------------------- MODULE Spec2Model ----------------------------
(***************************************************************************)
(* Buffer ingestion utilities of kakoune (src/src/buffer_utils.cc): the    *)
(* file loader, the FIFO ingestor and the debug sink, over a line-oriented *)
(* Buffer, a buffer registry, an event loop and a file system.             *)
(***************************************************************************)
EXTENDS Integers, Sequences, FiniteSets, TLC

(***************************************************************************)
(* Bounds of the model and constants of the program.                       *)
(***************************************************************************)
\* bytes the producers write, all descriptors together
MaxBytes == 3
\* descriptors handed to create_fifo_buffer
MaxFd == 2
\* readiness notifications delivered in nested dispatch mode
MaxNested == 1
\* bytes of one diagnostic, and of one file
MaxText == 2
\* write_to_debug_buffer calls
MaxWrites == 3
\* modification times the file system hands out
MaxTime == 2
\* bytes of a burst beyond what one invocation of read_fifo drains
MaxExtra == 1
\* characters of a line before its newline
MaxChars == 3
\* the largest tabstop
MaxTabstop == 3
\* offsets and columns past the end of a line
MaxPast == 2
\* buffer_utils.cc:39
INT_MAX == 2147483647
\* buffer_utils.cc:136
buffer_size == 2048
\* buffer_utils.cc:140
max_loop == 16
\* the timestamp of a buffer that has no file behind it
InvalidTime == 0

NL == "\n"
Bytes == {"a", NL}

Fds == 1..MaxFd
FifoName == "*fifo*"
debug_buffer_name == "*debug*"
FileName == "file"
Names == {FifoName, debug_buffer_name, FileName}

\* Buffer::Flags
Flags == {"File", "New", "Fifo", "NoUndo", "ReadOnly", "Debug"}

(***************************************************************************)
(* Strings are sequences of bytes.                                         *)
(***************************************************************************)
Last(s) == s[Len(s)]

Min(a, b) == IF a < b THEN a ELSE b

\* the positions of the newlines of s, in increasing order
NlPositions(s) ==
    LET P == {i \in 1..Len(s) : s[i] = NL}
    IN  [k \in 1..Cardinality(P) |->
            CHOOSE p \in P : Cardinality({q \in P : q <= p}) = k]

(***************************************************************************)
(* The Buffer collaborator: a non-empty list of lines, every line ending   *)
(* with a newline.  Coordinates are (line, column), both counted from 0.   *)
(***************************************************************************)
Coord(l, c) == [line |-> l, column |-> c]

CoordLess(a, b) == a.line < b.line \/ (a.line = b.line /\ a.column < b.column)

\* parse_lines: every piece up to and including a newline is a line; a last
\* piece without one gets one
parse_lines(data) ==
    LET nl == NlPositions(data)
        n  == Len(nl)
        start(k) == IF k = 1 THEN 1 ELSE nl[k - 1] + 1
        full == [k \in 1..n |-> SubSeq(data, start(k), nl[k])]
        from == IF n = 0 THEN 1 ELSE nl[n] + 1
    IN  IF from <= Len(data)
        THEN Append(full, SubSeq(data, from, Len(data)) \o <<NL>>)
        ELSE full

\* the lines of a Buffer constructed from, or reloaded with, data
BufferLines(data) ==
    IF parse_lines(data) = <<>> THEN << <<NL>> >> ELSE parse_lines(data)

line_count(lines) == Len(lines)

back_coord(lines) == Coord(Len(lines) - 1, Len(Last(lines)) - 1)

end_coord(lines) == Coord(Len(lines), 0)

is_end(lines, c) ==
    \/ c.line >= Len(lines)
    \/ c.line = Len(lines) - 1 /\ c.column >= Len(Last(lines))

next(lines, c) ==
    IF c.column < Len(lines[c.line + 1]) - 1
    THEN Coord(c.line, c.column + 1)
    ELSE Coord(c.line + 1, 0)

prev(lines, c) ==
    IF c.column = 0
    THEN IF c.line = 0 THEN c
         ELSE Coord(c.line - 1, Len(lines[c.line]) - 1)
    ELSE Coord(c.line, c.column - 1)

\* Buffer::do_insert: content spliced into the line of pos, or appended as
\* new lines when pos is the end of the buffer
do_insert(lines, pos, content) ==
    LET nl == NlPositions(content)
        n  == Len(nl)
        start(k) == IF k = 1 THEN 1 ELSE nl[k - 1] + 1
        at_end == is_end(lines, pos)
        cur    == IF at_end THEN <<>> ELSE lines[pos.line + 1]
        prefix == IF at_end THEN <<>> ELSE SubSeq(cur, 1, pos.column)
        suffix == IF at_end THEN <<>> ELSE SubSeq(cur, pos.column + 1, Len(cur))
        full == [k \in 1..n |->
                    IF k = 1 THEN prefix \o SubSeq(content, 1, nl[1])
                    ELSE SubSeq(content, start(k), nl[k])]
        rest == IF n = 0 THEN content
                ELSE SubSeq(content, nl[n] + 1, Len(content))
        new_lines ==
            IF n = 0 THEN << prefix \o content \o suffix >>
            ELSE IF rest # <<>> \/ suffix # <<>>
                 THEN Append(full, rest \o suffix)
                 ELSE full
    IN  IF at_end
        THEN lines \o new_lines
        ELSE SubSeq(lines, 1, pos.line) \o new_lines
                 \o SubSeq(lines, pos.line + 2, Len(lines))

\* an insert that leaves the content as it is given
insert_as_given(lines, pos, content) ==
    IF content = <<>> THEN lines ELSE do_insert(lines, pos, content)

\* Buffer::insert: content inserted at the end of the buffer gets a newline
\* when it has none
insert(lines, pos, content) ==
    IF content = <<>> THEN lines
    ELSE IF is_end(lines, pos) /\ Last(content) # NL
         THEN do_insert(lines, pos, content \o <<NL>>)
         ELSE do_insert(lines, pos, content)

\* Buffer::erase: the last newline of the buffer is never erased
erase(lines, begin, end) ==
    LET e == IF is_end(lines, end)
             THEN IF begin.column # 0 \/ begin = Coord(0, 0)
                  THEN back_coord(lines)
                  ELSE end_coord(lines)
             ELSE end
        prefix == SubSeq(lines[begin.line + 1], 1, begin.column)
        suffix == IF e.line = Len(lines) THEN <<>>
                  ELSE SubSeq(lines[e.line + 1], e.column + 1, Len(lines[e.line + 1]))
        new_line == IF prefix \o suffix = <<>> THEN <<>> ELSE << prefix \o suffix >>
    IN  IF ~CoordLess(begin, e) THEN lines
        ELSE SubSeq(lines, 1, begin.line) \o new_line
                 \o SubSeq(lines, e.line + 2, Len(lines))

\* the content of a buffer as one string
RECURSIVE Flat(_)
Flat(lines) == IF lines = <<>> THEN <<>> ELSE lines[1] \o Flat(Tail(lines))

\* the offset in Flat(lines) of coordinate c
RECURSIVE OffsetOf(_, _)
OffsetOf(lines, c) ==
    IF c.line = 0 \/ lines = <<>> THEN c.column
    ELSE Len(lines[1]) + OffsetOf(Tail(lines), Coord(c.line - 1, c.column))

\* selection_to_string(ColumnType::Byte, ...): "line.column,line.column",
\* both ends counted from 1
selection_to_string(anchor, cursor) ==
    <<anchor.line + 1, anchor.column + 1, cursor.line + 1, cursor.column + 1>>

(***************************************************************************)
(* State.                                                                  *)
(***************************************************************************)
VARIABLES
    registry,    \* the BufferManager singleton: "none", "alive" or "destroyed"
    buffers,     \* the registry: name -> buffer
    created,     \* name -> number of create_buffer calls made for it
    fdOpen,      \* the descriptors this process holds open
    registered,  \* the descriptors watched by the event loop
    m_scroll,    \* FifoWatcher::m_scroll, per descriptor
    pipe,        \* per descriptor: the bytes written and not yet read
    writerOpen,  \* per descriptor: the producer's end is open
    fderr,       \* per descriptor: reads fail
    got,         \* the bytes the reads returned since the FIFO buffer was last (re)started
    frames,      \* the call stack of the (single) thread; <<>> is the event loop
    hooklog,     \* the hooks fired by the call in progress or last made, oldest first
    closedCount, \* per descriptor: the BufCloseFifo hooks fired for its watcher
    nested,      \* the notifications delivered in nested dispatch mode during that call
    errout,      \* what was written to descriptor 2
    writes,      \* the write_to_debug_buffer calls made, by the path they took
    fs,          \* the file system: path -> file
    result,      \* the last file-loader or debug-sink call and how it ended
    drain,       \* read_fifo on a descriptor that holds a burst, by byte counts
    call         \* the line under the column functions and the last call made on it

vars == <<registry, buffers, created, fdOpen, registered, m_scroll, pipe,
          writerOpen, fderr, got, frames, hooklog, closedCount, nested, errout,
          writes, fs, result, drain, call>>

envVars == <<pipe, writerOpen, fderr>>
fifoVars == <<fdOpen, registered, m_scroll, got, frames, hooklog, closedCount, nested>>
otherVars == <<errout, writes, fs, result>>

\* BufferManager::has_instance
has_instance == registry = "alive"

\* close_fd: the descriptor is released and the kernel drops what it held for it
Released(f, fds, v) == [fd \in DOMAIN f |-> IF fd \in fds THEN v ELSE f[fd]]

NoBuffer == [live |-> FALSE, flags |-> {}, lines |-> <<>>,
             mtime |-> InvalidTime, watcher |-> {}]

NoFrame == [op |-> "none", pc |-> "none", buf |-> FifoName, fd |-> 0,
            old |-> {}, flags |-> {}, loop |-> 0, closed |-> FALSE,
            insert_coord |-> Coord(0, 0), data |-> <<>>,
            prevent_scrolling |-> FALSE, reads |-> 0,
            bytes |-> <<>>, fired |-> 0, depth |-> 0, file_exists |-> FALSE]

Top == frames[Len(frames)]
Pop == SubSeq(frames, 1, Len(frames) - 1)
SetTop(f) == [frames EXCEPT ![Len(frames)] = f]
AtTop(op, pc) == frames # <<>> /\ Top.op = op /\ Top.pc = pc
InHook == frames # <<>> /\ Top.pc \in {"hook_opened", "hook_appended", "hook_closed"}

Fire(log, hook, buf, fd, payload) ==
    Append(log, [hook |-> hook, buf |-> buf, fd |-> fd, payload |-> payload])

\* BufferManager::create_buffer
create_buffer(name, flags, data, mtime) ==
    [live |-> TRUE, flags |-> flags, lines |-> BufferLines(data),
     mtime |-> mtime, watcher |-> {}]

\* Buffer::reload
reload(buf, data, mtime) ==
    [buf EXCEPT !.lines = BufferLines(data), !.mtime = mtime]

\* fd_readable: a read would not block
fd_readable(fd) == pipe[fd] # <<>> \/ ~writerOpen[fd] \/ fderr[fd]

\* ::read(fifo, data, buffer_size): the count returned
read_size(avail) == Min(buffer_size, avail)

read_count(fd) ==
    IF fderr[fd] \/ fd \notin fdOpen THEN -1 ELSE read_size(Len(pipe[fd]))

(***************************************************************************)
(* The producers and the descriptors (the environment).                    *)
(***************************************************************************)
RECURSIVE Produced(_)
Produced(S) ==
    IF S = {} THEN 0
    ELSE LET fd == CHOOSE k \in S : TRUE
         IN  Len(pipe[fd]) + Produced(S \ {fd})

Write(fd, b) ==
    /\ fd \in fdOpen
    /\ writerOpen[fd]
    /\ Len(got) + Produced(Fds) < MaxBytes
    /\ pipe' = [pipe EXCEPT ![fd] = Append(@, b)]
    /\ UNCHANGED <<registry, drain, call, buffers, created, writerOpen, fderr, otherVars>>
    /\ UNCHANGED fifoVars

CloseWriter(fd) ==
    /\ fd \in fdOpen
    /\ writerOpen[fd]
    /\ writerOpen' = [writerOpen EXCEPT ![fd] = FALSE]
    /\ UNCHANGED <<registry, drain, call, buffers, created, pipe, fderr, otherVars>>
    /\ UNCHANGED fifoVars

FdError(fd) ==
    /\ fd \in fdOpen
    /\ ~fderr[fd]
    /\ fderr' = [fderr EXCEPT ![fd] = TRUE]
    /\ UNCHANGED <<registry, drain, call, buffers, created, pipe, writerOpen, otherVars>>
    /\ UNCHANGED fifoVars

(***************************************************************************)
(* create_fifo_buffer, lines 98-111 and 186-190.                           *)
(***************************************************************************)
FifoCallerFlags == {{}, {"Debug"}}

NextFd == Cardinality(DOMAIN m_scroll) + 1

\* an existing buffer taken over with its content
FifoBufferNoReload(b, flags) ==
    IF b.live
    THEN [b EXCEPT !.flags = @ \cup {"NoUndo"} \cup flags]
    ELSE create_buffer(FifoName, flags \cup {"Fifo", "NoUndo"}, <<>>, InvalidTime)

\* lines 103-111: the buffer the watcher is made for
FifoBuffer(b, flags) ==
    IF b.live
    THEN reload([b EXCEPT !.flags = @ \cup {"NoUndo"} \cup flags], <<>>, InvalidTime)
    ELSE create_buffer(FifoName, flags \cup {"Fifo", "NoUndo"}, <<>>, InvalidTime)

\* a destructor that clears Fifo alone
DtorFlagsFifoOnly(flags) == flags \ {"Fifo"}

\* line 129, the flags ~FifoWatcher leaves
DtorFlags(flags) == flags \ {"Fifo", "NoUndo"}

\* the flags of line 106 in place of those of line 187
FifoFlagsNoFifo(flags) == flags \cup {"NoUndo"}

\* line 187, the flags create_fifo_buffer leaves
FifoFlags(flags) == flags \cup {"Fifo", "NoUndo"}

\* line 187 ahead of line 186: the flags are set, then the previous watcher
\* is destroyed
AttachFlagsFirst(b, name, fd, flags) ==
    /\ buffers' = [buffers EXCEPT
                     ![name] = [b EXCEPT !.watcher = {fd},
                                         !.flags = IF b.watcher # {}
                                                   THEN DtorFlags(FifoFlags(flags))
                                                   ELSE FifoFlags(flags)]]
    /\ frames' = <<[NoFrame EXCEPT !.op = "create_fifo_buffer", !.pc = "hook_opened",
                                   !.buf = name, !.fd = fd, !.flags = flags]>>

\* lines 186-188 once the previous value of the store is gone: the watcher is
\* in the store, the flags are set and BufOpenFifo is fired
Attach(b, name, fd, flags) ==
    /\ buffers' = [buffers EXCEPT
                     ![name] = [b EXCEPT !.watcher = {fd}, !.flags = FifoFlags(flags)]]
    /\ frames' = <<[NoFrame EXCEPT !.op = "create_fifo_buffer", !.pc = "hook_opened",
                                   !.buf = name, !.fd = fd, !.flags = flags]>>

create_fifo_buffer(name, fd, flags, scroll) ==
    /\ frames = <<>>
    /\ has_instance
    /\ fd = NextFd
    /\ LET b == FifoBuffer(buffers[name], flags)
       IN  /\ created' = IF buffers[name].live THEN created
                         ELSE [created EXCEPT ![name] = @ + 1]
           /\ m_scroll' = [k \in DOMAIN m_scroll \cup {fd} |->
                              IF k = fd THEN scroll ELSE m_scroll[k]]
           /\ registered' = registered \cup {fd}
           /\ IF b.watcher # {}
              THEN \* the old watcher's destructor: close_fd, BufCloseFifo
                   /\ fdOpen' = (fdOpen \cup {fd}) \ b.watcher
                   /\ hooklog' = Fire(<<>>, "BufCloseFifo", name,
                                      CHOOSE o \in b.watcher : TRUE, <<>>)
                   /\ closedCount' = [fd2 \in Fds |->
                          closedCount[fd2] + IF fd2 \in b.watcher THEN 1 ELSE 0]
                   /\ buffers' = [buffers EXCEPT ![name] = b]
                   /\ frames' = <<[NoFrame EXCEPT !.op = "create_fifo_buffer",
                                       !.pc = "hook_closed", !.buf = name, !.fd = fd,
                                       !.old = b.watcher, !.flags = flags]>>
              ELSE /\ fdOpen' = fdOpen \cup {fd}
                   /\ hooklog' = Fire(<<>>, "BufOpenFifo", name, fd, <<name>>)
                   /\ closedCount' = closedCount
                   /\ Attach(b, name, fd, flags)
    /\ nested' = 0
    /\ got' = <<>>
    /\ pipe' = Released(pipe, buffers[name].watcher, <<>>)
    /\ writerOpen' = Released(writerOpen, buffers[name].watcher, TRUE)
    /\ fderr' = Released(fderr, buffers[name].watcher, FALSE)
    /\ UNCHANGED <<registry, drain, call, otherVars>>

\* the BufCloseFifo hook of the replaced watcher returns: line 129, then lines
\* 186-188
OldWatcherGone ==
    /\ AtTop("create_fifo_buffer", "hook_closed")
    /\ LET f == Top
           b == buffers[f.buf]
       IN  /\ registered' = registered \ f.old
           /\ hooklog' = Fire(hooklog, "BufOpenFifo", f.buf, f.fd, <<f.buf>>)
           /\ Attach([b EXCEPT !.flags = DtorFlags(@)], f.buf, f.fd, f.flags)
    /\ UNCHANGED <<registry, drain, call, created, fdOpen, m_scroll, got, closedCount, nested,
                   otherVars>>
    /\ UNCHANGED envVars

\* the BufOpenFifo hook returns, and create_fifo_buffer with it
FifoBufferReturn ==
    /\ AtTop("create_fifo_buffer", "hook_opened")
    /\ frames' = Pop
    /\ UNCHANGED <<registry, drain, call, buffers, created, fdOpen, registered, m_scroll, got,
                   hooklog, closedCount, nested, otherVars>>
    /\ UNCHANGED envVars

(***************************************************************************)
(* The event loop and FifoWatcher's callback, lines 115-122.               *)
(***************************************************************************)
Watched(fd) == fd \in registered /\ fd \in fdOpen /\ fd_readable(fd)

\* a callback that does not look at the dispatch mode
RunsReadFifoAnyMode(mode) == TRUE

\* line 118
RunsReadFifo(mode) == mode = "Normal"

ReadFifoFrames == {i \in DOMAIN frames : frames[i].op = "read_fifo"}

\* lines 134-145: the locals of read_fifo
ReadFrame(fd) ==
    [NoFrame EXCEPT !.op = "read_fifo", !.pc = "read", !.buf = FifoName, !.fd = fd,
                    !.insert_coord = back_coord(buffers[FifoName].lines),
                    !.depth = Cardinality(ReadFifoFrames)]

Callback(fd, mode) ==
    frames' = IF RunsReadFifo(mode) THEN Append(frames, ReadFrame(fd)) ELSE frames

\* EventManager::handle_next_events(EventMode::Normal), from the main loop
Dispatch(fd) ==
    /\ frames = <<>>
    /\ Watched(fd)
    /\ Callback(fd, "Normal")
    /\ hooklog' = <<>>
    /\ nested' = 0
    /\ UNCHANGED <<registry, drain, call, buffers, created, fdOpen, registered, m_scroll, got,
                   closedCount, otherVars>>
    /\ UNCHANGED envVars

\* handle_next_events(EventMode::Urgent), from the code a hook runs
NestedDispatch(fd) ==
    /\ InHook
    /\ nested < MaxNested
    /\ Watched(fd)
    /\ nested' = nested + 1
    /\ Callback(fd, "Urgent")
    /\ UNCHANGED <<registry, drain, call, buffers, created, fdOpen, registered, m_scroll, got,
                   hooklog, closedCount, otherVars>>
    /\ UNCHANGED envVars

(***************************************************************************)
(* FifoWatcher::read_fifo, lines 132-180, one step per statement that      *)
(* changes the buffer and one state per hook it runs.                      *)
(***************************************************************************)
\* line 156
prevent_scrolling(pos, scroll) == pos = Coord(0, 0) /\ ~scroll

\* lines 155-160: the buffer after the chunk is inserted
InsertChunk(lines, scroll, data) ==
    LET pos == back_coord(lines)
    IN  insert(lines,
               IF prevent_scrolling(pos, scroll) THEN next(lines, pos) ELSE pos,
               data)

\* a read loop without line 164
EraseNothing(lines) == lines

\* line 164
EraseFirstLine(lines) == erase(lines, Coord(0, 0), next(lines, Coord(0, 0)))

\* a read loop without lines 167-168
RestoreNothing(lines, data) == lines

\* lines 167-168
RestoreLastLine(lines, data) ==
    IF Last(data) = NL THEN insert(lines, end_coord(lines), <<NL>>) ELSE lines

\* a loop that goes on for as long as the descriptor is readable
LoopsWhileReadable(loop, readable) == readable

\* line 171
LoopsAgain(loop, readable) == loop < max_loop /\ readable

\* a hook fired whether or not the last coordinate moved
FiresAlways(insert_coord, lines) == TRUE

\* line 173
FiresAppended(insert_coord, lines) == insert_coord # back_coord(lines)

\* lines 148-160
ReadStep ==
    /\ AtTop("read_fifo", "read")
    /\ LET f == Top
           fd == f.fd
           count == read_count(fd)
           lines == buffers[f.buf].lines
           data == SubSeq(pipe[fd], 1, count)
       IN  /\ fd_readable(fd) \/ fd \notin fdOpen
           /\ IF count <= 0
              THEN /\ frames' = SetTop([f EXCEPT !.closed = TRUE, !.pc = "done_loop",
                                                 !.reads = @ + 1])
                   /\ UNCHANGED <<buffers, pipe, got>>
              ELSE /\ pipe' = [pipe EXCEPT ![fd] = SubSeq(@, count + 1, Len(@))]
                   /\ got' = got \o data
                   /\ buffers' = [buffers EXCEPT
                          ![f.buf].lines = InsertChunk(lines, m_scroll[fd], data)]
                   /\ frames' = SetTop([f EXCEPT
                          !.data = data, !.bytes = @ \o data, !.reads = @ + 1,
                          !.prevent_scrolling =
                              prevent_scrolling(back_coord(lines), m_scroll[fd]),
                          !.pc = IF prevent_scrolling(back_coord(lines), m_scroll[fd])
                                 THEN "inserted" ELSE "loop_check"])
    /\ UNCHANGED <<registry, drain, call, created, fdOpen, registered, m_scroll, writerOpen,
                   fderr, hooklog, closedCount, nested, otherVars>>

\* line 164
EraseStep ==
    /\ AtTop("read_fifo", "inserted")
    /\ buffers' = [buffers EXCEPT ![Top.buf].lines = EraseFirstLine(@)]
    /\ frames' = SetTop([Top EXCEPT !.pc = "erased"])
    /\ UNCHANGED <<registry, drain, call, created, fdOpen, registered, m_scroll, got, hooklog,
                   closedCount, nested, otherVars>>
    /\ UNCHANGED envVars

\* lines 167-168
RestoreStep ==
    /\ AtTop("read_fifo", "erased")
    /\ buffers' = [buffers EXCEPT ![Top.buf].lines = RestoreLastLine(@, Top.data)]
    /\ frames' = SetTop([Top EXCEPT !.pc = "loop_check"])
    /\ UNCHANGED <<registry, drain, call, created, fdOpen, registered, m_scroll, got, hooklog,
                   closedCount, nested, otherVars>>
    /\ UNCHANGED envVars

\* line 171
LoopCheck ==
    /\ AtTop("read_fifo", "loop_check")
    /\ frames' = SetTop([Top EXCEPT
                           !.loop = @ + 1,
                           !.pc = IF LoopsAgain(Top.loop + 1, fd_readable(Top.fd))
                                  THEN "read" ELSE "done_loop"])
    /\ UNCHANGED <<registry, drain, call, buffers, created, fdOpen, registered, m_scroll, got,
                   hooklog, closedCount, nested, otherVars>>
    /\ UNCHANGED envVars

\* a read_fifo without lines 178-179: the watcher of a closed FIFO stays
AfterAppendedNeverErases(f, log) ==
    /\ hooklog' = log
    /\ UNCHANGED <<fdOpen, closedCount>>
    /\ UNCHANGED envVars
    /\ frames' = Pop

\* a destructor that fires BufCloseFifo with the descriptor still open
AfterAppendedKeepsFd(f, log) ==
    IF f.closed
    THEN /\ hooklog' = Fire(log, "BufCloseFifo", f.buf, f.fd, <<>>)
         /\ closedCount' = [closedCount EXCEPT ![f.fd] = @ + 1]
         /\ frames' = SetTop([f EXCEPT !.pc = "hook_closed"])
         /\ UNCHANGED fdOpen
         /\ UNCHANGED envVars
    ELSE /\ hooklog' = log
         /\ UNCHANGED <<fdOpen, closedCount>>
         /\ UNCHANGED envVars
         /\ frames' = Pop

\* lines 178-179 with the start of ~FifoWatcher (lines 126-128): a closed
\* watcher is erased from the value store, which closes the descriptor and
\* fires BufCloseFifo; another one returns to the event loop
AfterAppended(f, log) ==
    IF f.closed
    THEN /\ fdOpen' = fdOpen \ {f.fd}
         /\ pipe' = Released(pipe, {f.fd}, <<>>)
         /\ writerOpen' = Released(writerOpen, {f.fd}, TRUE)
         /\ fderr' = Released(fderr, {f.fd}, FALSE)
         /\ hooklog' = Fire(log, "BufCloseFifo", f.buf, f.fd, <<>>)
         /\ closedCount' = [closedCount EXCEPT ![f.fd] = @ + 1]
         /\ frames' = SetTop([f EXCEPT !.pc = "hook_closed"])
    ELSE /\ hooklog' = log
         /\ UNCHANGED <<fdOpen, closedCount>>
         /\ UNCHANGED envVars
         /\ frames' = Pop

\* lines 173-179
DoneLoop ==
    /\ AtTop("read_fifo", "done_loop")
    /\ LET f == Top
           lines == buffers[f.buf].lines
       IN  IF FiresAppended(f.insert_coord, lines)
           THEN /\ hooklog' = Fire(hooklog, "BufReadFifo", f.buf, f.fd,
                        selection_to_string(f.insert_coord, back_coord(lines)))
                /\ frames' = SetTop([f EXCEPT !.pc = "hook_appended", !.fired = @ + 1])
                /\ UNCHANGED <<fdOpen, closedCount>>
                /\ UNCHANGED envVars
           ELSE AfterAppended(f, hooklog)
    /\ UNCHANGED <<registry, drain, call, buffers, created, registered, m_scroll, got, nested,
                   otherVars>>

\* the BufReadFifo hook returns: lines 178-179
AppendedReturn ==
    /\ AtTop("read_fifo", "hook_appended")
    /\ AfterAppended(Top, hooklog)
    /\ UNCHANGED <<registry, drain, call, buffers, created, registered, m_scroll, got, nested,
                   otherVars>>

\* the BufCloseFifo hook returns: line 129, the watcher leaves the event loop
\* and the value store, and read_fifo returns
ClosedReturn ==
    /\ AtTop("read_fifo", "hook_closed")
    /\ buffers' = [buffers EXCEPT ![Top.buf] =
                      [@ EXCEPT !.flags = DtorFlags(@), !.watcher = @ \ {Top.fd}]]
    /\ registered' = registered \ {Top.fd}
    /\ frames' = Pop
    /\ UNCHANGED <<registry, drain, call, created, fdOpen, m_scroll, got, hooklog, closedCount,
                   nested, otherVars>>
    /\ UNCHANGED envVars

(***************************************************************************)
(* The FIFO ingestor under its producers and the event loop.               *)
(***************************************************************************)
NoFile == [exists |-> FALSE, readable |-> FALSE, content |-> <<>>,
           mtime |-> InvalidTime]

NoResult == [op |-> "none", outcome |-> "none", cause |-> "none", text |-> <<>>,
             flags |-> {}]

\* no burst written, read_fifo not running
NoDrain == [pc |-> "idle", open |-> FALSE, writerOpen |-> TRUE, size |-> 0,
            avail |-> 0, loop |-> 0, reads |-> 0, count |-> 0, appended |-> 0,
            closed |-> FALSE, calls |-> 0, fired |-> 0]

\* no line looked at
NoCall == [op |-> "none", line |-> <<>>, tabstop |-> 1, arg |-> 0, value |-> 0]

\* the state after construction, but for the line under the column functions
InitAllBut ==
    /\ registry = "alive"
    /\ buffers = [n \in Names |-> NoBuffer]
    /\ created = [n \in Names |-> 0]
    /\ fdOpen = {}
    /\ registered = {}
    /\ m_scroll = <<>>
    /\ pipe = [fd \in Fds |-> <<>>]
    /\ writerOpen = [fd \in Fds |-> TRUE]
    /\ fderr = [fd \in Fds |-> FALSE]
    /\ got = <<>>
    /\ frames = <<>>
    /\ hooklog = <<>>
    /\ closedCount = [fd \in Fds |-> 0]
    /\ nested = 0
    /\ errout = <<>>
    /\ writes = [raw |-> 0, created |-> 0, appended |-> 0]
    /\ fs = [path \in {FileName} |-> NoFile]
    /\ result = NoResult
    /\ drain = NoDrain

InitWith(reg) ==
    /\ registry = reg
    /\ buffers = [n \in Names |-> NoBuffer]
    /\ created = [n \in Names |-> 0]
    /\ fdOpen = {}
    /\ registered = {}
    /\ m_scroll = <<>>
    /\ pipe = [fd \in Fds |-> <<>>]
    /\ writerOpen = [fd \in Fds |-> TRUE]
    /\ fderr = [fd \in Fds |-> FALSE]
    /\ got = <<>>
    /\ frames = <<>>
    /\ hooklog = <<>>
    /\ closedCount = [fd \in Fds |-> 0]
    /\ nested = 0
    /\ errout = <<>>
    /\ writes = [raw |-> 0, created |-> 0, appended |-> 0]
    /\ fs = [path \in {FileName} |-> NoFile]
    /\ result = NoResult
    /\ drain = NoDrain
    /\ call = NoCall

Init == InitWith("alive")

Next ==
    \/ \E fd \in Fds, flags \in FifoCallerFlags, scroll \in BOOLEAN :
           create_fifo_buffer(FifoName, fd, flags, scroll)
    \/ OldWatcherGone
    \/ FifoBufferReturn
    \/ \E fd \in Fds, b \in Bytes : Write(fd, b)
    \/ \E fd \in Fds : CloseWriter(fd)
    \/ \E fd \in Fds : FdError(fd)
    \/ \E fd \in Fds : Dispatch(fd)
    \/ \E fd \in Fds : NestedDispatch(fd)
    \/ ReadStep
    \/ EraseStep
    \/ RestoreStep
    \/ LoopCheck
    \/ DoneLoop
    \/ AppendedReturn
    \/ ClosedReturn

Spec == Init /\ [][Next]_vars

(***************************************************************************)
(* The FIFO ingestor under a producer that writes in bursts.               *)
(***************************************************************************)
\* What read_fifo does with the bytes does not bear on how many it takes: here
\* the descriptor and the buffer are followed by their byte counts alone.
BurstSizes == {1, buffer_size, buffer_size + 1, max_loop * buffer_size}
                  \cup {max_loop * buffer_size + k : k \in 1..MaxExtra}

notCall == <<registry, buffers, created, fdOpen, registered, m_scroll, pipe,
             writerOpen, fderr, got, frames, hooklog, closedCount, nested,
             errout, writes, fs, result, drain>>

notDrain == <<registry, buffers, created, fdOpen, registered, m_scroll, pipe,
              writerOpen, fderr, got, frames, hooklog, closedCount, nested,
              errout, writes, fs, result, call>>

\* create_fifo_buffer, lines 98-191: the descriptor is watched
DrainOpen ==
    /\ ~drain.open
    /\ drain.calls = 0
    /\ drain' = [NoDrain EXCEPT !.open = TRUE]
    /\ UNCHANGED notDrain

\* the producer writes n bytes at once
Burst(n) ==
    /\ drain.open
    /\ drain.writerOpen
    /\ drain.pc = "idle"
    /\ drain.size = 0
    /\ drain' = [drain EXCEPT !.size = n, !.avail = n]
    /\ UNCHANGED notDrain

\* the producer closes its end
BurstClose ==
    /\ drain.open
    /\ drain.writerOpen
    /\ drain' = [drain EXCEPT !.writerOpen = FALSE]
    /\ UNCHANGED notDrain

\* fd_readable on the counts
DrainReadable == drain.avail > 0 \/ ~drain.writerOpen

\* lines 115-122 and 134-145: the event loop, in normal mode, calls read_fifo
DrainDispatch ==
    /\ drain.pc = "idle"
    /\ drain.open
    /\ DrainReadable
    /\ drain' = [drain EXCEPT !.pc = "read", !.loop = 0, !.reads = 0, !.count = 0,
                              !.appended = 0, !.closed = FALSE, !.calls = @ + 1]
    /\ UNCHANGED notDrain

\* lines 148-160
DrainRead ==
    /\ drain.pc = "read"
    /\ DrainReadable
    /\ LET count == read_size(drain.avail)
       IN  drain' = IF count <= 0
                    THEN [drain EXCEPT !.closed = TRUE, !.pc = "done_loop",
                                       !.reads = @ + 1, !.count = count]
                    ELSE [drain EXCEPT !.avail = @ - count, !.appended = @ + count,
                                       !.reads = @ + 1, !.count = count,
                                       !.pc = "loop_check"]
    /\ UNCHANGED notDrain

\* line 171
DrainLoopCheck ==
    /\ drain.pc = "loop_check"
    /\ drain' = [drain EXCEPT
                    !.loop = @ + 1,
                    !.pc = IF LoopsAgain(drain.loop + 1, DrainReadable)
                           THEN "read" ELSE "done_loop"]
    /\ UNCHANGED notDrain

\* lines 173-180: BufReadFifo when bytes were appended, the watcher erased
\* when the stream is closed, and the return to the event loop
DrainReturn ==
    /\ drain.pc = "done_loop"
    /\ drain' = [drain EXCEPT
                    !.pc = "idle",
                    !.fired = IF drain.appended > 0 THEN @ + 1 ELSE @,
                    !.open = ~drain.closed]
    /\ UNCHANGED notDrain

NextBurst ==
    \/ DrainOpen
    \/ \E n \in BurstSizes : Burst(n)
    \/ BurstClose
    \/ DrainDispatch
    \/ DrainRead
    \/ DrainLoopCheck
    \/ DrainReturn

SpecBurst == Init /\ [][NextBurst]_vars

(***************************************************************************)
(* write_to_debug_buffer, lines 193-220, and the life of the registry.     *)
(***************************************************************************)
Texts == UNION {[1..n -> Bytes] : n \in 0..MaxText}

\* line 205
eol_back(str) == str # <<>> /\ Last(str) = NL

\* the text alone, without the newline of line 198
RawOutputNoNewline(str) == str

\* lines 197-198
RawOutput(str) == str \o <<NL>>

\* the text inserted as it was given
AppendedTextAsGiven(str) == str

\* line 211
AppendedText(str) == IF eol_back(str) THEN str ELSE str \o <<NL>>

\* line 215
CreatedText(str) == str \o (IF eol_back(str) THEN <<NL>> ELSE <<NL, NL>>)

\* line 217
DebugFlags == {"NoUndo", "Debug", "ReadOnly"}

\* ReadOnly set again only when the insert returns
RestoredOnReturn(flags, thrown) == IF thrown THEN flags ELSE flags \cup {"ReadOnly"}

\* line 209: the scope guard runs however the scope is left
Restored(flags, thrown) == flags \cup {"ReadOnly"}

DebugResult(outcome, str) ==
    [NoResult EXCEPT !.op = "write_to_debug_buffer", !.outcome = outcome, !.text = str]

write_to_debug_buffer(str, thrown) ==
    /\ frames = <<>>
    /\ writes.raw + writes.created + writes.appended < MaxWrites
    /\ LET b == buffers[debug_buffer_name]
       IN  IF ~has_instance
           THEN /\ ~thrown
                /\ errout' = errout \o RawOutput(str)
                /\ writes' = [writes EXCEPT !.raw = @ + 1]
                /\ result' = DebugResult("raw", str)
                /\ UNCHANGED <<buffers, created>>
           ELSE IF b.live
           THEN /\ buffers' = [buffers EXCEPT ![debug_buffer_name] =
                       [b EXCEPT
                          !.flags = Restored(b.flags \ {"ReadOnly"}, thrown),
                          !.lines = IF thrown THEN @
                                    ELSE insert(@, back_coord(@), AppendedText(str))]]
                /\ writes' = [writes EXCEPT !.appended = @ + 1]
                /\ result' = DebugResult(IF thrown THEN "error" ELSE "appended", str)
                /\ UNCHANGED <<errout, created>>
           ELSE /\ ~thrown
                /\ buffers' = [buffers EXCEPT ![debug_buffer_name] =
                       create_buffer(debug_buffer_name, DebugFlags,
                                     CreatedText(str), InvalidTime)]
                /\ created' = [created EXCEPT ![debug_buffer_name] = @ + 1]
                /\ writes' = [writes EXCEPT !.created = @ + 1]
                /\ result' = DebugResult("created", str)
                /\ UNCHANGED errout
    /\ UNCHANGED <<registry, drain, call, fs>>
    /\ UNCHANGED fifoVars
    /\ UNCHANGED envVars

\* the BufferManager singleton is constructed
RegistryInit ==
    /\ registry = "none"
    /\ registry' = "alive"
    /\ UNCHANGED <<buffers, created>>
    /\ UNCHANGED fifoVars
    /\ UNCHANGED envVars
    /\ UNCHANGED <<otherVars, drain, call>>

\* the BufferManager singleton is destroyed, and its buffers with it
RegistryDestroy ==
    /\ registry = "alive"
    /\ frames = <<>>
    /\ registry' = "destroyed"
    /\ buffers' = [n \in Names |-> NoBuffer]
    /\ UNCHANGED created
    /\ UNCHANGED fifoVars
    /\ UNCHANGED envVars
    /\ UNCHANGED <<otherVars, drain, call>>

InitDebug == InitWith("none")

NextDebug ==
    \/ \E str \in Texts, thrown \in BOOLEAN : write_to_debug_buffer(str, thrown)
    \/ RegistryInit
    \/ RegistryDestroy

SpecDebug == InitDebug /\ [][NextDebug]_vars

(***************************************************************************)
(* The file loader, lines 68-96, over a file system that changes under it. *)
(***************************************************************************)
FileCallerFlags == {{}, {"ReadOnly"}}

FsStore(path, content) ==
    /\ fs[path].mtime < MaxTime
    /\ fs' = [fs EXCEPT ![path] =
                 [exists |-> TRUE,
                  readable |-> IF @.exists THEN @.readable ELSE TRUE,
                  content |-> content,
                  mtime |-> @.mtime + 1]]
    /\ UNCHANGED <<registry, drain, call, buffers, created, errout, writes, result>>
    /\ UNCHANGED fifoVars
    /\ UNCHANGED envVars

FsRemove(path) ==
    /\ fs[path].exists
    /\ fs' = [fs EXCEPT ![path] = [NoFile EXCEPT !.mtime = fs[path].mtime]]
    /\ UNCHANGED <<registry, drain, call, buffers, created, errout, writes, result>>
    /\ UNCHANGED fifoVars
    /\ UNCHANGED envVars

FsChmod(path) ==
    /\ fs[path].exists
    /\ fs' = [fs EXCEPT ![path].readable = ~@]
    /\ UNCHANGED <<registry, drain, call, buffers, created, errout, writes, result>>
    /\ UNCHANGED fifoVars
    /\ UNCHANGED envVars

\* file_exists: stat succeeds
file_exists(path) == fs[path].exists

\* MappedFile's constructor: open, fstat and mmap succeed
MappedFileOk(path) == fs[path].exists /\ fs[path].readable

\* why MappedFile's constructor throws file_access_error
AccessError(path) == IF fs[path].exists THEN "unreadable" ELSE "absent"

FileResult(op, outcome, cause, flags) ==
    [NoResult EXCEPT !.op = op, !.outcome = outcome, !.cause = cause, !.flags = flags]

\* lines 70-72 and 81-83: a buffer of the file's content and time
FileBuffer(name, flags) ==
    create_buffer(name, {"File"} \cup flags, fs[name].content, fs[name].mtime)

\* lines 85-87: a buffer for a file that does not exist
NewFileBuffer(name, flags) ==
    create_buffer(name, {"File", "New"}, <<>>, InvalidTime)

\* lines 68-73
open_file_buffer(name, flags) ==
    /\ frames = <<>>
    /\ has_instance
    /\ ~buffers[name].live
    /\ IF MappedFileOk(name)
       THEN /\ buffers' = [buffers EXCEPT ![name] = FileBuffer(name, flags)]
            /\ created' = [created EXCEPT ![name] = @ + 1]
            /\ result' = FileResult("open_file_buffer", "ok", "none", flags)
       ELSE /\ result' = FileResult("open_file_buffer", "FileAccessError",
                                    AccessError(name), flags)
            /\ UNCHANGED <<buffers, created>>
    /\ UNCHANGED <<registry, drain, call, errout, writes, fs>>
    /\ UNCHANGED fifoVars
    /\ UNCHANGED envVars

\* lines 77-79: the path is resolved and looked for
OpenOrCreateCheck(name, flags) ==
    /\ frames = <<>>
    /\ has_instance
    /\ ~buffers[name].live
    /\ frames' = <<[NoFrame EXCEPT !.op = "open_or_create_file_buffer",
                        !.pc = "checked", !.buf = name, !.flags = flags,
                        !.file_exists = file_exists(name)]>>
    /\ result' = NoResult
    /\ UNCHANGED <<registry, drain, call, buffers, created, fdOpen, registered, m_scroll, got,
                   hooklog, closedCount, nested, errout, writes, fs>>
    /\ UNCHANGED envVars

\* lines 79-87: the file is read if it was there, a new buffer made otherwise
OpenOrCreateFinish ==
    /\ AtTop("open_or_create_file_buffer", "checked")
    /\ LET f == Top
           name == f.buf
           op == "open_or_create_file_buffer"
       IN  IF f.file_exists
           THEN IF MappedFileOk(name)
                THEN /\ buffers' = [buffers EXCEPT ![name] = FileBuffer(name, f.flags)]
                     /\ created' = [created EXCEPT ![name] = @ + 1]
                     /\ result' = FileResult(op, "ok", "none", f.flags)
                ELSE /\ result' = FileResult(op, "FileAccessError",
                                             AccessError(name), f.flags)
                     /\ UNCHANGED <<buffers, created>>
           ELSE /\ buffers' = [buffers EXCEPT ![name] = NewFileBuffer(name, f.flags)]
                /\ created' = [created EXCEPT ![name] = @ + 1]
                /\ result' = FileResult(op, "new", "none", f.flags)
    /\ frames' = Pop
    /\ UNCHANGED <<registry, drain, call, fdOpen, registered, m_scroll, got, hooklog, closedCount,
                   nested, errout, writes, fs>>
    /\ UNCHANGED envVars

\* line 95
ReloadedFlags(flags) == flags \ {"New"}

\* line 95 ahead of line 93: New is cleared, then the file is opened
reload_file_buffer_clears_first(name) ==
    /\ frames = <<>>
    /\ has_instance
    /\ buffers[name].live
    /\ "File" \in buffers[name].flags
    /\ IF MappedFileOk(name)
       THEN /\ buffers' = [buffers EXCEPT ![name] =
                   [reload(@, fs[name].content, fs[name].mtime)
                       EXCEPT !.flags = ReloadedFlags(@)]]
            /\ result' = FileResult("reload_file_buffer", "ok", "none", {})
       ELSE /\ result' = FileResult("reload_file_buffer", "FileAccessError",
                                    AccessError(name), {})
            /\ buffers' = [buffers EXCEPT ![name].flags = ReloadedFlags(@)]
    /\ UNCHANGED <<registry, drain, call, created, errout, writes, fs>>
    /\ UNCHANGED fifoVars
    /\ UNCHANGED envVars

\* lines 90-96
reload_file_buffer(name) ==
    /\ frames = <<>>
    /\ has_instance
    /\ buffers[name].live
    /\ "File" \in buffers[name].flags
    /\ IF MappedFileOk(name)
       THEN /\ buffers' = [buffers EXCEPT ![name] =
                   [reload(@, fs[name].content, fs[name].mtime)
                       EXCEPT !.flags = ReloadedFlags(@)]]
            /\ result' = FileResult("reload_file_buffer", "ok", "none", {})
       ELSE /\ result' = FileResult("reload_file_buffer", "FileAccessError",
                                    AccessError(name), {})
            /\ UNCHANGED buffers
    /\ UNCHANGED <<registry, drain, call, created, errout, writes, fs>>
    /\ UNCHANGED fifoVars
    /\ UNCHANGED envVars

NextFile ==
    \/ \E content \in Texts : FsStore(FileName, content)
    \/ FsRemove(FileName)
    \/ FsChmod(FileName)
    \/ \E flags \in FileCallerFlags : open_file_buffer(FileName, flags)
    \/ \E flags \in FileCallerFlags : OpenOrCreateCheck(FileName, flags)
    \/ OpenOrCreateFinish
    \/ reload_file_buffer(FileName)

SpecFile == Init /\ [][NextFile]_vars

(***************************************************************************)
(* Properties of the FIFO ingestor.                                        *)
(***************************************************************************)
Fifo == buffers[FifoName]

ReadFrameAt(pcs) == frames # <<>> /\ Top.op = "read_fifo" /\ Top.pc \in pcs

\* C1: in every state of a FIFO buffer (after create_fifo_buffer, after each
\* chunk insertion, after the erase and the re-insert of the scroll anchor,
\* after close) the content is not empty and its last byte is a newline.
C1_TrailingNewline ==
    \A n \in Names :
        buffers[n].live =>
            /\ Flat(buffers[n].lines) # <<>>
            /\ Last(Flat(buffers[n].lines)) = NL

\* the scroll anchor's first line has just been erased after a chunk that
\* ends with a newline, and the empty last line is not yet restored
C1_Witness ==
    /\ ReadFrameAt({"erased"})
    /\ Last(Top.data) = NL
    /\ Len(Top.data) >= 2

\* C2: a read that returns a count <= 0 is the last read of its invocation,
\* and when that invocation returns the buffer has neither Fifo nor NoUndo,
\* BufCloseFifo was fired exactly once for the watcher, the descriptor is
\* released and the value store no longer holds the watcher.
C2_ClosedTearsDown ==
    [][ (frames # <<>> /\ Top.op = "read_fifo" /\ Top.closed) =>
            IF Len(frames') >= Len(frames)
            THEN frames'[Len(frames)].reads = Top.reads
            ELSE /\ buffers'[Top.buf].flags \cap {"Fifo", "NoUndo"} = {}
                 /\ closedCount'[Top.fd] = 1
                 /\ Top.fd \notin fdOpen'
                 /\ Top.fd \notin buffers'[Top.buf].watcher
                 /\ Top.fd \notin registered' ]_vars

\* an invocation that read data and then a count <= 0 has returned
C2_Witness ==
    /\ frames = <<>>
    /\ Fifo.live
    /\ Fifo.watcher = {}
    /\ closedCount[1] = 1
    /\ got # <<>>
    /\ Len(hooklog) = 2

\* C4: every buffer has at most one watcher in its value store, and has one
\* exactly when it has both the Fifo and the NoUndo flag; this holds while
\* the BufOpenFifo, BufReadFifo and BufCloseFifo hooks run as well.
C4_WatcherIffFlags ==
    \A n \in Names :
        /\ Cardinality(buffers[n].watcher) <= 1
        /\ buffers[n].watcher # {} <=> {"Fifo", "NoUndo"} \subseteq buffers[n].flags

\* the BufCloseFifo hook of a watcher that create_fifo_buffer replaces runs
C4_Witness ==
    /\ AtTop("create_fifo_buffer", "hook_closed")
    /\ Fifo.watcher # {}
    /\ {"Fifo", "NoUndo"} \subseteq Fifo.flags

\* C5: a notification delivered in nested dispatch mode reads nothing,
\* leaves buffers, descriptors, watchers and the call stack as they are and
\* fires no hook; so read_fifo is never entered while read_fifo runs.
C5_NestedIgnored ==
    /\ [][ nested' > nested =>
             UNCHANGED <<buffers, frames, hooklog, closedCount, got, pipe, fdOpen,
                         registered>> ]_vars
    /\ [](Cardinality(ReadFifoFrames) <= 1)

\* a notification arrived in nested mode while BufReadFifo ran, with data
\* waiting on the descriptor
C5_Witness ==
    /\ ReadFrameAt({"hook_appended"})
    /\ nested > 0
    /\ Top.fd \in fdOpen
    /\ pipe[Top.fd] # <<>>

WithNewline(data) == IF Last(data) = NL THEN data ELSE data \o <<NL>>

\* C6: without auto-scroll and with the last coordinate at (0,0), a chunk is
\* inserted after the first line, then the first line is erased: the chunk's
\* first byte is then at (0,0) with nothing before it, the content ends with
\* a newline, and a chunk that ends with a newline is followed by an empty
\* last line.
C6_ScrollAnchor ==
    (frames # <<>> /\ Top.op = "read_fifo" /\ Top.prevent_scrolling) =>
        LET lines == buffers[Top.buf].lines
            data == Top.data
        IN  /\ Top.pc = "inserted" =>
                /\ lines[1] = <<NL>>
                /\ Flat(Tail(lines)) = WithNewline(data)
            /\ Top.pc = "erased" =>
                /\ Flat(lines) = WithNewline(data)
                /\ lines[1][1] = data[1]
            /\ Top.pc = "loop_check" =>
                /\ Flat(lines) = data \o <<NL>>
                /\ lines[1][1] = data[1]
                /\ Last(data) = NL => Len(lines) >= 2 /\ Last(lines) = <<NL>>

\* the anchor handling is complete for a chunk of two bytes that ends with a
\* newline
C6_Witness ==
    /\ ReadFrameAt({"loop_check"})
    /\ Top.prevent_scrolling
    /\ Len(Top.data) >= 2
    /\ Last(Top.data) = NL

PayloadAnchor(p) == Coord(p[1] - 1, p[2] - 1)
PayloadCursor(p) == Coord(p[3] - 1, p[4] - 1)

\* C7: an invocation of read_fifo fires BufReadFifo once, after its last
\* read, when a read of it returned bytes, and does not fire it otherwise;
\* the payload is the range from the coordinate of the first byte appended
\* by the invocation to the last coordinate of the buffer, and the content in
\* between is what the invocation appended.
C7_AppendedOnce ==
    /\ [](frames # <<>> /\ Top.op = "read_fifo" =>
            /\ Top.fired <= 1
            /\ Top.fired = 1 => Top.pc \in {"hook_appended", "hook_closed"}
            /\ Top.pc \in {"hook_appended", "hook_closed"} =>
                   (Top.fired = 1 <=> Top.bytes # <<>>)
            /\ Top.pc = "hook_appended" =>
                 LET h == hooklog[Len(hooklog)]
                     lines == buffers[Top.buf].lines
                 IN  /\ h.hook = "BufReadFifo"
                     /\ PayloadAnchor(h.payload) = Top.insert_coord
                     /\ PayloadCursor(h.payload) = back_coord(lines)
                     /\ SubSeq(Flat(lines),
                               OffsetOf(lines, PayloadAnchor(h.payload)) + 1,
                               OffsetOf(lines, PayloadCursor(h.payload))) = Top.bytes)
    /\ [][ (frames # <<>> /\ Top.op = "read_fifo" /\ Len(frames') < Len(frames)) =>
             (Top.fired = 1 <=> Top.bytes # <<>>) ]_vars

\* BufReadFifo runs once for an invocation that made two reads with data
C7_Witness ==
    /\ ReadFrameAt({"hook_appended"})
    /\ Top.reads >= 2
    /\ Len(Top.bytes) >= 2
    /\ Len(hooklog) = 1

\* C3: one invocation of read_fifo makes at most 16 reads of at most 2048
\* bytes each, so it appends at most 16*2048 bytes; when more than that is
\* waiting, the invocation returns with bytes left on the descriptor, which
\* is still watched, and a burst of more than 16*2048 bytes is drained only
\* once read_fifo has been called at least twice.
C3_BoundedDrain ==
    /\ [](/\ drain.reads <= 16
          /\ drain.count <= 2048
          /\ drain.appended <= 16 * 2048
          /\ (drain.size > 16 * 2048 /\ drain.avail = 0) => drain.calls >= 2)
    /\ [][ (drain.pc = "done_loop" /\ drain'.pc = "idle"
               /\ drain.appended + drain.avail > 16 * 2048) =>
             /\ drain'.avail > 0
             /\ drain'.open ]_vars

\* a first invocation made 16 reads of 2048 bytes and has returned to the
\* event loop with the rest of the burst still on the descriptor
C3_Witness ==
    /\ drain.pc = "idle"
    /\ drain.calls = 1
    /\ drain.reads = 16
    /\ drain.appended = 16 * 2048
    /\ drain.avail > 0
    /\ drain.open

(***************************************************************************)
(* Properties of the debug sink.                                           *)
(***************************************************************************)
DebugBuffer == buffers[debug_buffer_name]

\* C8: while the registry is alive, once write_to_debug_buffer has returned
\* (normally, or by an error of the insert) the debug buffer exists and is
\* ReadOnly; the first call created it and the later ones appended to it, so
\* it was created once.
C8_DebugReadOnly ==
    (has_instance /\ writes.created + writes.appended >= 1) =>
        /\ DebugBuffer.live
        /\ "ReadOnly" \in DebugBuffer.flags
        /\ created[debug_buffer_name] = 1
        /\ writes.created = 1

\* an insert into the existing debug buffer has thrown
C8_Witness ==
    /\ has_instance
    /\ result.op = "write_to_debug_buffer"
    /\ result.outcome = "error"
    /\ writes.appended >= 2

\* C9: without a registry write_to_debug_buffer writes the text and one
\* newline to descriptor 2 and touches no buffer; with a registry it writes
\* nothing there, and the call that creates the debug buffer gives it its
\* own text alone, whatever went to descriptor 2 before.
C9_RawFallback ==
    [][ writes' # writes =>
          LET text == result'.text
          IN  IF ~has_instance
              THEN /\ errout' = errout \o text \o <<NL>>
                   /\ UNCHANGED <<buffers, created>>
              ELSE /\ errout' = errout
                   /\ created'[debug_buffer_name] > created[debug_buffer_name] =>
                        Flat(buffers'[debug_buffer_name].lines) =
                            IF text # <<>> /\ Last(text) = NL
                            THEN text \o <<NL>>
                            ELSE text \o <<NL, NL>> ]_vars

\* a text went to descriptor 2 before the registry was there, and a later one
\* has created the debug buffer
C9_Witness ==
    /\ has_instance
    /\ writes.raw >= 1
    /\ errout # <<>>
    /\ result.outcome = "created"
    /\ DebugBuffer.live

(***************************************************************************)
(* Properties of the file loader.                                          *)
(***************************************************************************)
FileBuf == buffers[FileName]

\* C10: open_or_create_file_buffer never fails because the path does not
\* exist, also when the file is removed between the check and the read; for
\* a path that does not exist the buffer has the flags File|New alone, empty
\* content and no modification time; for one that exists it has File|flags
\* without New; a reload that succeeds clears New and keeps File.
C10_OpenOrCreate ==
    /\ result.op = "open_or_create_file_buffer" =>
         /\ ~(result.outcome = "FileAccessError" /\ result.cause = "absent")
         /\ result.outcome = "new" =>
              /\ FileBuf.live
              /\ FileBuf.flags = {"File", "New"}
              /\ FileBuf.lines = << <<NL>> >>
              /\ FileBuf.mtime = InvalidTime
         /\ result.outcome = "ok" =>
              /\ FileBuf.live
              /\ FileBuf.flags = {"File"} \cup result.flags
    /\ (result.op = "reload_file_buffer" /\ result.outcome = "ok") =>
         /\ "New" \notin FileBuf.flags
         /\ "File" \in FileBuf.flags

(***************************************************************************)
(* get_column, column_length and get_byte_to_column, lines 18-66.          *)
(***************************************************************************)
TAB == "\t"

\* a narrow character of one byte, a combining mark of two bytes and no
\* width, a narrow character of two bytes, a wide character of three bytes
Chars == {<<TAB>>, <<"a">>, <<"C", "c">>, <<"D", "c">>, <<"E", "c", "c">>}

RECURSIVE CharSeqs(_)
CharSeqs(n) ==
    IF n = 0 THEN {<<>>}
    ELSE CharSeqs(n - 1) \cup {l \o ch : l \in CharSeqs(n - 1), ch \in Chars}

\* the lines of a buffer end with a newline
ColumnLines == {l \o <<NL>> : l \in CharSeqs(MaxChars)}

Tabstops == 1..MaxTabstop

\* the bytes utf8::read_codepoint takes for a codepoint, from its first byte
codepoint_bytes(b) ==
    IF b \in {"C", "D"} THEN 2 ELSE IF b = "E" THEN 3 ELSE 1

\* utf8::read_codepoint moves the iterator past the codepoint, not past the end
read_codepoint(line, it) == Min(it + codepoint_bytes(line[it + 1]), Len(line))

\* codepoint_width of the codepoint whose first byte is b
codepoint_width(b) == IF b = "C" THEN 0 ELSE IF b = "E" THEN 2 ELSE 1

\* a tab that puts the column back on the first tabstop
TabAdvanceReset(col, tabstop) == tabstop

\* line 28
TabAdvance(col, tabstop) == ((col \div tabstop) + 1) * tabstop

\* lines 23-33: the loop, with it as the offset of the iterator in the line
RECURSIVE get_column_from(_, _, _, _, _)
get_column_from(line, tabstop, column, it, col) ==
    IF it # Len(line) /\ column > it
    THEN IF line[it + 1] = TAB
         THEN get_column_from(line, tabstop, column, it + 1, TabAdvance(col, tabstop))
         ELSE get_column_from(line, tabstop, column, read_codepoint(line, it),
                              col + codepoint_width(line[it + 1]))
    ELSE col

\* lines 18-35
get_column(line, tabstop, column) == get_column_from(line, tabstop, column, 0, 0)

\* line 39
column_length(line, tabstop) == get_column(line, tabstop, INT_MAX)

\* a tab counted as tabstop columns wherever it stands
TabColumnFixed(col, tabstop) == col + tabstop

\* line 51
TabColumn(col, tabstop) == ((col \div tabstop) + 1) * tabstop

\* a scan that never stops inside a character
TargetNeverInside(col, column) == FALSE

\* lines 52 and 60
TargetInside(col, column) == col > column

\* lines 47-64: the loop
RECURSIVE get_byte_to_column_from(_, _, _, _, _)
get_byte_to_column_from(line, tabstop, column, it, col) ==
    IF it # Len(line) /\ column > col
    THEN LET newcol == IF line[it + 1] = TAB
                       THEN TabColumn(col, tabstop)
                       ELSE col + codepoint_width(line[it + 1])
             next_it == IF line[it + 1] = TAB THEN it + 1
                        ELSE read_codepoint(line, it)
         IN  IF TargetInside(newcol, column)
             THEN it
             ELSE get_byte_to_column_from(line, tabstop, column, next_it, newcol)
    ELSE it

\* lines 42-66
get_byte_to_column(line, tabstop, column) ==
    get_byte_to_column_from(line, tabstop, column, 0, 0)

\* the byte offsets asked for: in the line, at its end and past it
Offsets(line) == 0..(Len(line) + MaxPast)

\* the columns asked for: in the line, at its end and past it
Columns(line, tabstop) == 0..(column_length(line, tabstop) + MaxPast)

GetColumn(offset) ==
    /\ offset \in Offsets(call.line)
    /\ call' = [call EXCEPT !.op = "get_column", !.arg = offset,
                            !.value = get_column(call.line, call.tabstop, offset)]
    /\ UNCHANGED notCall

ColumnLength ==
    /\ call' = [call EXCEPT !.op = "column_length", !.arg = INT_MAX,
                            !.value = column_length(call.line, call.tabstop)]
    /\ UNCHANGED notCall

GetByteToColumn(column) ==
    /\ column \in Columns(call.line, call.tabstop)
    /\ call' = [call EXCEPT !.op = "get_byte_to_column", !.arg = column,
                            !.value = get_byte_to_column(call.line, call.tabstop,
                                                         column)]
    /\ UNCHANGED notCall

InitColumn ==
    /\ InitAllBut
    /\ call \in {[NoCall EXCEPT !.line = l, !.tabstop = t] :
                    l \in ColumnLines, t \in Tabstops}

NextColumn ==
    \/ \E offset \in 0..(MaxChars * 3 + 1 + MaxPast) : GetColumn(offset)
    \/ ColumnLength
    \/ \E column \in 0..(MaxChars * MaxTabstop + MaxChars * 2 + 1 + MaxPast) :
           GetByteToColumn(column)

SpecColumn == InitColumn /\ [][NextColumn]_vars

(***************************************************************************)
(* Properties of the column functions.                                     *)
(***************************************************************************)
\* the offsets at which a codepoint of the line starts, and the line's end
RECURSIVE Boundaries(_, _)
Boundaries(line, it) ==
    IF it >= Len(line) THEN {Len(line)}
    ELSE {it} \cup Boundaries(line, it + codepoint_bytes(line[it + 1]))

\* the column at which the codepoint at a boundary starts: a tab advances to
\* the next multiple of tabstop, any other codepoint by its width
RECURSIVE ColumnAt(_, _, _)
ColumnAt(line, tabstop, o) ==
    IF o = 0 THEN 0
    ELSE LET p == CHOOSE q \in Boundaries(line, 0) :
                      q < o /\ q + codepoint_bytes(line[q + 1]) = o
             before == ColumnAt(line, tabstop, p)
         IN  IF line[p + 1] = TAB
             THEN before + (tabstop - (before % tabstop))
             ELSE before + codepoint_width(line[p + 1])

VisualLength(line, tabstop) == ColumnAt(line, tabstop, Len(line))

\* C11: get_column never decreases as the byte offset grows, offsets past
\* the end of the line and inside a codepoint included, and at or past the
\* end of the line it is the visual length of the line; column_length is
\* that length.
C11_ColumnMonotonic ==
    /\ call.op = "get_column" =>
         /\ \A o1 \in 0..call.arg :
                get_column(call.line, call.tabstop, o1) <= call.value
         /\ call.arg >= Len(call.line) =>
                call.value = VisualLength(call.line, call.tabstop)
    /\ call.op = "column_length" =>
         call.value = VisualLength(call.line, call.tabstop)

\* get_column asked past the end of a line made of a tab, a combining mark
\* and a wide character
C11_Witness ==
    /\ call.op = "get_column"
    /\ call.arg > Len(call.line)
    /\ call.line = <<TAB, "C", "c", "E", "c", "c", NL>>
    /\ call.tabstop = 3
    /\ call.value = 6

\* the end of a codepoint of no width
AfterZeroWidth(line, c) ==
    \E p \in Boundaries(line, 0) :
        /\ p < c
        /\ p + codepoint_bytes(line[p + 1]) = c
        /\ codepoint_width(line[p + 1]) = 0

\* C12 as stated: for an offset c of the line that is not inside a
\* character, get_byte_to_column of get_column of c is c.
C12_RoundTrip ==
    (/\ call.op = "get_column"
     /\ call.arg \in Boundaries(call.line, 0)) =>
        get_byte_to_column(call.line, call.tabstop, call.value) = call.arg

\* C12: for an offset c of the line that is not inside a character and is
\* not the end of a codepoint of width 0, get_byte_to_column of get_column
\* of c is c.
C12_RoundTripAmended ==
    (/\ call.op = "get_column"
     /\ call.arg \in Boundaries(call.line, 0)
     /\ ~AfterZeroWidth(call.line, call.arg)) =>
        get_byte_to_column(call.line, call.tabstop, call.value) = call.arg

\* get_column asked at the offset after a tab that follows a combining mark
\* and a wide character
C12_Witness ==
    /\ call.op = "get_column"
    /\ call.line = <<"C", "c", "E", "c", "c", TAB, NL>>
    /\ call.tabstop = 3
    /\ call.arg = 6
    /\ call.value = 3

Hooks(log, hook) == {i \in DOMAIN log : log[i].hook = hook}

CreateFrameAt(pcs) ==
    frames # <<>> /\ Top.op = "create_fifo_buffer" /\ Top.pc \in pcs

\* C14: create_fifo_buffer on a name that has a buffer makes no second
\* buffer and empties the one there is; on a name without a buffer it makes
\* one, with the flags Fifo|NoUndo|flags; BufOpenFifo is fired once, with the
\* watcher for fd in the store and the flags set, and the call returns with
\* that watcher and Fifo and NoUndo set.
C14_StartFifo ==
    /\ [][ (frames = <<>> /\ frames' # <<>>
               /\ frames'[1].op = "create_fifo_buffer") =>
             LET n == frames'[1].buf
             IN  /\ buffers'[n].live
                 /\ buffers'[n].lines = << <<NL>> >>
                 /\ created'[n] = 1
                 /\ buffers[n].live => created[n] = 1
                 /\ ~buffers[n].live =>
                        /\ created[n] = 0
                        /\ buffers'[n].flags = frames'[1].flags \cup {"Fifo", "NoUndo"}
           ]_vars
    /\ [](CreateFrameAt({"hook_closed"}) =>
              Hooks(hooklog, "BufOpenFifo") = {})
    /\ [](CreateFrameAt({"hook_opened"}) =>
              /\ Hooks(hooklog, "BufOpenFifo") = {Len(hooklog)}
              /\ hooklog[Len(hooklog)].fd = Top.fd
              /\ buffers[Top.buf].watcher = {Top.fd}
              /\ {"Fifo", "NoUndo"} \subseteq buffers[Top.buf].flags)
    /\ [][ (CreateFrameAt({"hook_opened"}) /\ frames' = <<>>) =>
             /\ buffers'[Top.buf].watcher = {Top.fd}
             /\ Top.fd \in fdOpen' \cap registered'
             /\ {"Fifo", "NoUndo"} \subseteq buffers'[Top.buf].flags
             /\ Cardinality(Hooks(hooklog', "BufOpenFifo")) = 1
             /\ created'[Top.buf] = 1 ]_vars

\* create_fifo_buffer has returned for a second descriptor on the buffer of
\* a FIFO that was read and closed before
C14_Witness ==
    /\ frames = <<>>
    /\ Fifo.watcher = {2}
    /\ closedCount[1] = 1
    /\ hooklog = <<[hook |-> "BufOpenFifo", buf |-> FifoName, fd |-> 2,
                    payload |-> <<FifoName>>]>>
    /\ Fifo.lines = << <<NL>> >>
    /\ created[FifoName] = 1

\* C16: when a FIFO closes the descriptor is released first, then
\* BufCloseFifo runs with Fifo and NoUndo still set and the watcher still in
\* the store, after BufReadFifo when the invocation appended data; then the
\* flags are cleared and the watcher leaves the store, and with that
\* read_fifo returns.
C16_CloseOrder ==
    /\ [](ReadFrameAt({"hook_closed"}) =>
              /\ Top.fd \notin fdOpen
              /\ {"Fifo", "NoUndo"} \subseteq buffers[Top.buf].flags
              /\ Top.fd \in buffers[Top.buf].watcher
              /\ hooklog[Len(hooklog)].hook = "BufCloseFifo"
              /\ Hooks(hooklog, "BufCloseFifo") = {Len(hooklog)}
              /\ Top.bytes # <<>> =>
                     /\ Len(hooklog) = 2
                     /\ hooklog[1].hook = "BufReadFifo")
    /\ [](ReadFrameAt({"read", "inserted", "erased", "loop_check", "done_loop",
                       "hook_appended"}) =>
              /\ Top.fd \in fdOpen
              /\ Hooks(hooklog, "BufCloseFifo") = {})
    /\ [][ (ReadFrameAt({"hook_closed"}) /\ Len(frames') < Len(frames)) =>
             /\ frames' = <<>>
             /\ buffers'[Top.buf].flags \cap {"Fifo", "NoUndo"} = {}
             /\ buffers'[Top.buf].watcher = {}
             /\ buffers'[Top.buf].lines = buffers[Top.buf].lines
             /\ hooklog' = hooklog ]_vars

\* BufCloseFifo runs in an invocation that appended data before it read the
\* end of the stream
C16_Witness ==
    /\ ReadFrameAt({"hook_closed"})
    /\ Top.bytes # <<>>
    /\ Top.reads >= 2
    /\ Len(hooklog) = 2

\* C17: between the iterations of read_fifo and between its invocations the
\* content of a FIFO buffer is the bytes read so far, in the order they were
\* read, followed by one newline, whether or not the buffer scrolls.
C17_ContentIsStream ==
    (/\ Fifo.live
     /\ frames # <<>> => ReadFrameAt({"read", "loop_check", "done_loop",
                                      "hook_appended", "hook_closed"})
                         \/ CreateFrameAt({"hook_closed", "hook_opened"})) =>
        Flat(Fifo.lines) = got \o <<NL>>

\* three bytes, a newline among them, were read in more than one chunk into
\* a buffer that does not scroll
C17_Witness ==
    /\ frames = <<>>
    /\ Len(got) = 3
    /\ got[2] = NL
    /\ \E fd \in DOMAIN m_scroll : fd \in Fifo.watcher /\ ~m_scroll[fd]
    /\ Flat(Fifo.lines) = got \o <<NL>>
    /\ Len(hooklog) = 1
    /\ PayloadAnchor(hooklog[1].payload) # Coord(0, 0)

\* C18: create_fifo_buffer on a buffer that has a watcher destroys that
\* watcher within the call (its descriptor closed, BufCloseFifo fired once
\* for it) before BufOpenFifo is fired for the new one, and returns with the
\* new watcher alone in the store and the flags flags|Fifo|NoUndo exactly.
C18_Restart ==
    /\ [][ (frames = <<>> /\ frames' # <<>>
               /\ frames'[1].op = "create_fifo_buffer"
               /\ buffers[frames'[1].buf].watcher # {}) =>
             LET old == buffers[frames'[1].buf].watcher
             IN  /\ frames'[1].pc = "hook_closed"
                 /\ frames'[1].old = old
                 /\ old \cap fdOpen' = {}
                 /\ Cardinality(Hooks(hooklog', "BufCloseFifo")) = 1
                 /\ \A i \in Hooks(hooklog', "BufCloseFifo") : hooklog'[i].fd \in old
                 /\ Hooks(hooklog', "BufOpenFifo") = {}
                 /\ \A fd \in old : closedCount'[fd] = closedCount[fd] + 1 ]_vars
    /\ [][ (CreateFrameAt({"hook_closed"}) /\ ~CreateFrameAt({"hook_closed"})') =>
             /\ CreateFrameAt({"hook_opened"})'
             /\ buffers'[Top.buf].watcher = {Top.fd}
             /\ buffers'[Top.buf].flags = Top.flags \cup {"Fifo", "NoUndo"}
             /\ Top.old \cap registered' = {}
             /\ Hooks(hooklog', "BufCloseFifo") = {1}
             /\ Hooks(hooklog', "BufOpenFifo") = {2} ]_vars
    /\ [][ (CreateFrameAt({"hook_opened"}) /\ frames' = <<>>) =>
             /\ buffers'[Top.buf].watcher = {Top.fd}
             /\ buffers'[Top.buf].flags = Top.flags \cup {"Fifo", "NoUndo"}
             /\ \A fd \in Fds : closedCount'[fd] <= 1 ]_vars

\* create_fifo_buffer has returned after it replaced the watcher of
\* descriptor 1 by one for descriptor 2
C18_Witness ==
    /\ frames = <<>>
    /\ Fifo.watcher = {2}
    /\ closedCount[1] = 1
    /\ Len(hooklog) = 2
    /\ hooklog[1].hook = "BufCloseFifo"
    /\ hooklog[1].fd = 1
    /\ hooklog[2].hook = "BufOpenFifo"
    /\ 1 \notin fdOpen

(***************************************************************************)
(* One FIFO, its producer and an event loop that keeps dispatching.        *)
(***************************************************************************)
\* the statements of create_fifo_buffer and read_fifo, and the hooks they run
HandlerStep ==
    \/ FifoBufferReturn
    \/ ReadStep
    \/ EraseStep
    \/ RestoreStep
    \/ LoopCheck
    \/ DoneLoop
    \/ AppendedReturn
    \/ ClosedReturn

NextLive ==
    \/ \E scroll \in BOOLEAN : create_fifo_buffer(FifoName, 1, {}, scroll)
    \/ \E b \in Bytes : Write(1, b)
    \/ CloseWriter(1)
    \/ Dispatch(1)
    \/ NestedDispatch(1)
    \/ HandlerStep

\* the code of a handler and of a hook runs on to its return, and the event
\* loop goes on calling the watchers of the descriptors that are readable
SpecLive ==
    /\ Init
    /\ [][NextLive]_vars
    /\ WF_vars(HandlerStep)
    /\ WF_vars(Dispatch(1))

Streams == UNION {[1..n -> Bytes] : n \in 0..MaxBytes}

Drained(w) ==
    /\ frames = <<>>
    /\ got = w
    /\ Flat(Fifo.lines) = w \o <<NL>>
    /\ 1 \notin fdOpen
    /\ 1 \notin registered
    /\ Fifo.watcher = {}
    /\ Fifo.flags \cap {"Fifo", "NoUndo"} = {}
    /\ closedCount[1] = 1

\* C15: once the producer has closed its end, under an event loop that keeps
\* dispatching, all the bytes it wrote end up in the buffer and the watcher
\* ends itself (BufCloseFifo fired, Fifo and NoUndo cleared); and every
\* invocation of a handler returns.
C15_EventuallyDrained ==
    /\ \A w \in Streams :
           (1 \in fdOpen /\ ~writerOpen[1] /\ got \o pipe[1] = w) ~> Drained(w)
    /\ (frames # <<>>) ~> (frames = <<>>)

\* a stream of two bytes or more is in the buffer and the watcher is gone
C15_Witness ==
    /\ Len(got) >= 2
    /\ Drained(got)
    /\ Len(hooklog) = 2

\* C19: a reload_file_buffer that cannot open the file ends with a file
\* access error and leaves the buffer as it was: content, modification time
\* and flags, New among them; New goes away only in a reload that succeeds;
\* an open_file_buffer that cannot open the file registers no buffer.
C19_FailedReload ==
    /\ [][ (result'.op = "reload_file_buffer"
               /\ result'.outcome = "FileAccessError") =>
             /\ buffers' = buffers
             /\ created' = created ]_vars
    /\ [][ ("New" \in FileBuf.flags /\ "New" \notin FileBuf.flags') =>
             /\ result'.op = "reload_file_buffer"
             /\ result'.outcome = "ok"
             /\ MappedFileOk(FileName)
             /\ FileBuf.lines' = BufferLines(fs[FileName].content)
             /\ FileBuf.mtime' = fs[FileName].mtime ]_vars
    /\ []((result.op = "open_file_buffer" /\ result.outcome = "FileAccessError") =>
             /\ ~FileBuf.live
             /\ created[FileName] = 0)

\* the reload of a buffer made for a path without a file has failed on a
\* file that is there and cannot be read, and New is still set
C19_Witness ==
    /\ result.op = "reload_file_buffer"
    /\ result.outcome = "FileAccessError"
    /\ result.cause = "unreadable"
    /\ FileBuf.live
    /\ FileBuf.flags = {"File", "New"}
    /\ FileBuf.lines = << <<NL>> >>
    /\ FileBuf.mtime = InvalidTime

(***************************************************************************)
(* The content of the debug buffer.                                        *)
(***************************************************************************)
Terminated(str) ==
    IF str # <<>> /\ str[Len(str)] = NL THEN str ELSE str \o <<NL>>

\* C20: with a registry, the first write_to_debug_buffer makes the content
\* its message, ended by a newline, and an empty last line; each later one
\* puts its message, ended by a newline, between the content there was and
\* that empty last line; so the debug buffer always ends with an empty line.
C20_DebugContent ==
    /\ [](DebugBuffer.live =>
              /\ Len(DebugBuffer.lines) >= 2
              /\ Last(DebugBuffer.lines) = <<NL>>)
    /\ [][ (writes' # writes /\ has_instance) =>
             LET old == Flat(DebugBuffer.lines)
                 new == Flat(DebugBuffer.lines')
                 msg == Terminated(result'.text)
             IN  /\ result'.outcome = "created" => new = msg \o <<NL>>
                 /\ result'.outcome = "appended" =>
                        new = SubSeq(old, 1, Len(old) - 1) \o msg \o <<NL>>
                 /\ result'.outcome = "error" => new = old ]_vars

\* a third message, one without a newline at its end, has been appended
C20_Witness ==
    /\ has_instance
    /\ result.outcome = "appended"
    /\ writes.created = 1
    /\ writes.appended = 2
    /\ result.text # <<>>
    /\ Last(result.text) # NL
    /\ Len(DebugBuffer.lines) >= 4
=============================================================================
